---- MODULE Spec2Model ----
(***************************************************************************)
(* Backtesting engine of backend/app/services/backtesting.py:              *)
(* BacktestEngine.run replays a single-position, long-only strategy over   *)
(* a stored daily price series.                                            *)
(*                                                                         *)
(* Representation.                                                         *)
(*  - Dates are day numbers; the code compares ISO "YYYY-MM-DD" strings,   *)
(*    whose lexicographic order is the calendar order.                     *)
(*  - Scores and thresholds are in tenths of a point (15.0 is 150).  The   *)
(*    scorer returns round(total, 1), so round(score, 1) in the engine     *)
(*    maps every score to itself.                                          *)
(*  - commission_rate and tax_rate are the fractions k / RateDen.  With    *)
(*    RateDen = 4 every product and quotient below is exact in binary      *)
(*    floating point, so int() and // are integer truncation and floor.    *)
(*  - List indexes are the 0-based indexes of the code; element i of a     *)
(*    Python list is element i + 1 of the sequence.                        *)
(*  - An Optional value is <<>> (None) or <<v>>.                           *)
(***************************************************************************)
EXTENDS Integers, Sequences, FiniteSets

\* ---------------------------------------------------------------- bounds
MaxTail == 3
RateDen == 4
DateStride == 2
WarmupClose == 2

\* ------------------------------------------------------ program constants
MinScoreWindow == 20
NeutralScore == 150
DefaultLookback == 200
DefaultBuyThreshold == 200
DefaultSellThreshold == 120

NoIndex == -1

\* ------------------------------------------------------------ input sets
SeriesLen == MinScoreWindow - 1 + MaxTail
TailCloses == {0, 1, 3}
Capitals == {10}
CommissionRates == {0, 1}
TaxRates == {0, 1}
Thresholds == { <<DefaultBuyThreshold, DefaultSellThreshold>>,
                <<NeutralScore, DefaultSellThreshold>>,
                <<NeutralScore, DefaultBuyThreshold>> }
Lookbacks == {MinScoreWindow - 1, DefaultLookback}
LastDate == DateStride * SeriesLen
TailDate == DateStride * (SeriesLen - MaxTail)
StartDates == {1, TailDate + 1, TailDate + 2 * DateStride, LastDate + 1}
EndDates == {0, TailDate + 1, LastDate - 1, LastDate}
ScorerOutcomes == { [kind |-> "score", total |-> 100],
                    [kind |-> "score", total |-> 150],
                    [kind |-> "score", total |-> 250],
                    [kind |-> "no_data", total |-> 0],
                    [kind |-> "exception", total |-> 0] }

VARIABLES price_history, params, pc, error, all_prices, start_idx, end_idx,
          idx, price_slice, position, cash, buy_price, trades, daily_data,
          result, held, twin, http, scorer

\* price_history: the stored rows; params: the engine's BacktestParams;
\* pc, error: position in run and the ValueError raised; all_prices,
\* start_idx, end_idx, idx, price_slice: locals of run; position, cash,
\* buy_price, trades, daily_data: the engine's fields; result: the
\* BacktestResult returned by the current call; held: the BacktestResult of
\* an earlier call on the same engine, as its holder sees it; twin: a second
\* engine run side by side on another series; http: the request being
\* served by the REST layer and its response; scorer: the last call of the
\* technical scorer, its input and what it returned.
vars == <<price_history, params, pc, error, all_prices, start_idx, end_idx,
          idx, price_slice, position, cash, buy_price, trades, daily_data,
          result, held, twin, http, scorer>>

\* --------------------------------------------------------------- helpers
Max(a, b) == IF a >= b THEN a ELSE b

Last(s) == s[Len(s)]

\* list(reversed(xs))
Reversed(xs) == [i \in 1..Len(xs) |-> xs[Len(xs) + 1 - i]]

\* int(x) of the float n / d, d > 0: truncation toward zero
IntTrunc(n, d) == IF n >= 0 THEN n \div d ELSE -((-n) \div d)

None == <<>>
Some(v) == <<v>>

\* round(x, 1) on a score in tenths
Round1(score) == score

\* round(n / d * 100, 2) in hundredths of a percent, d > 0
RoundPct2(n, d) ==
    LET scaled == n * 10000
        q == scaled \div d
        r == scaled - q * d
    IN  IF 2 * r > d THEN q + 1
        ELSE IF 2 * r < d THEN q
        ELSE IF q % 2 = 0 THEN q ELSE q + 1

\* round(n / d) to the nearest integer, ties to even, d > 0
RoundDiv(n, d) ==
    LET q == n \div d
        r == n - q * d
    IN  IF 2 * r > d THEN q + 1
        ELSE IF 2 * r < d THEN q
        ELSE IF q % 2 = 0 THEN q ELSE q + 1

\* ------------------------------------------------- stored price series
\* rows of price_history for the stock, as get_prices returns them (DESC)
StoredSeries(tail) ==
    [k \in 1..SeriesLen |->
        LET i == SeriesLen - k
        IN  [date |-> DateStride * (i + 1),
             close_price |-> IF i < SeriesLen - MaxTail THEN WarmupClose
                             ELSE tail[i - (SeriesLen - MaxTail) + 1]]]

BacktestParams(sd, ed, cap, th, lb, cr, tr) ==
    [start_date |-> sd, end_date |-> ed, initial_capital |-> cap,
     buy_threshold |-> th[1], sell_threshold |-> th[2],
     lookback_days |-> lb, commission_rate |-> cr, tax_rate |-> tr]

\* ------------------------------------------------------ range location
RECURSIVE FindStartFrom(_, _, _)
FindStartFrom(date_list, start_date, i) ==
    IF i >= Len(date_list) THEN NoIndex
    ELSE IF date_list[i + 1] >= start_date THEN i
    ELSE FindStartFrom(date_list, start_date, i + 1)

\* variant: a start_date after the last row clamped to the last row
FindStartClamped(date_list, start_date) ==
    IF FindStartFrom(date_list, start_date, 0) = NoIndex
    THEN Len(date_list) - 1
    ELSE FindStartFrom(date_list, start_date, 0)

FindStart(date_list, start_date) == FindStartFrom(date_list, start_date, 0)

RECURSIVE FindEndFrom(_, _, _)
FindEndFrom(date_list, end_date, i) ==
    IF i < 0 THEN NoIndex
    ELSE IF date_list[i + 1] <= end_date THEN i
    ELSE FindEndFrom(date_list, end_date, i - 1)

FindEnd(date_list, end_date) == FindEndFrom(date_list, end_date, Len(date_list) - 1)

\* variants of the second range check
EndInvalidInclusive(s, e) == e = NoIndex \/ e <= s

EndInvalidNever(s, e) == FALSE

EndInvalid(s, e) == e = NoIndex \/ e < s

\* variant: range(start_idx, end_idx)
LoopStopExclusive(e) == e

LoopStop(e) == e + 1

\* -------------------------------------------------- technical analyzer
\* backend/app/services/technical.py.  Component scores are in tenths of a
\* point; prices and moving averages are integers, rsi14 is in points, macd
\* and macd_hist are signed integers and volume_ratio is in tenths.

MAX_MA_ARRANGEMENT == 60
MAX_MA_DIVERGENCE == 60
MAX_RSI == 50
MAX_MACD == 50
MAX_VOLUME == 80
MAX_TOTAL == 300

\* Python truthiness of an Optional number: None and 0 are falsy
Truthy(v) == v # None /\ v[1] # 0

has_data(ind) == ind.has_data

\* number of i with values[i] > values[i + 1]
RECURSIVE DescendingPairs(_, _)
DescendingPairs(values, n) ==
    IF n = 0 THEN 0
    ELSE DescendingPairs(values, n - 1)
         + (IF values[n] > values[n + 1] THEN 1 ELSE 0)

calc_ma_arrangement(ind) ==
    IF ~has_data(ind) THEN 30
    ELSE IF ~(Truthy(ind.current_price) /\ Truthy(ind.ma5) /\ Truthy(ind.ma20))
    THEN 30
    ELSE LET values == <<ind.current_price[1], ind.ma5[1], ind.ma20[1]>>
                       \o (IF Truthy(ind.ma60) THEN <<ind.ma60[1]>> ELSE <<>>)
                       \o (IF Truthy(ind.ma120) THEN <<ind.ma120[1]>> ELSE <<>>)
             total_pairs == Len(values) - 1
             score == DescendingPairs(values, total_pairs)
         IN  RoundDiv(score * MAX_MA_ARRANGEMENT, total_pairs)

\* (price - ma20) / ma20 * 100 >= pct, for either sign of ma20
DivergenceAtLeast(price, ma20, pct) ==
    IF ma20 > 0 THEN (price - ma20) * 100 >= pct * ma20
    ELSE (price - ma20) * 100 <= pct * ma20

calc_ma_divergence(ind) ==
    IF ~has_data(ind) THEN 30
    ELSE IF ~Truthy(ind.current_price) \/ ~Truthy(ind.ma20) THEN 30
    ELSE LET price == ind.current_price[1]
             ma20 == ind.ma20[1]
         IN  IF DivergenceAtLeast(price, ma20, 10) THEN 20
             ELSE IF DivergenceAtLeast(price, ma20, 5) THEN 50
             ELSE IF DivergenceAtLeast(price, ma20, 0) THEN 60
             ELSE IF DivergenceAtLeast(price, ma20, -5) THEN 40
             ELSE IF DivergenceAtLeast(price, ma20, -10) THEN 20
             ELSE 30

calc_rsi_score(ind) ==
    IF ~has_data(ind) THEN 25
    ELSE IF ind.rsi14 = None THEN 25
    ELSE LET rsi == ind.rsi14[1]
         IN  IF rsi < 30 THEN 40
             ELSE IF rsi < 40 THEN 50
             ELSE IF rsi < 60 THEN 30
             ELSE IF rsi < 70 THEN 20
             ELSE 10

calc_macd_score(ind) ==
    IF ~has_data(ind) THEN 25
    ELSE IF ind.macd = None \/ ind.macd_hist = None THEN 25
    ELSE LET macd == ind.macd[1]
             hist == ind.macd_hist[1]
         IN  IF macd > 0 /\ hist > 0 THEN 50
             ELSE IF macd > 0 /\ hist <= 0 THEN 30
             ELSE IF macd <= 0 /\ hist > 0 THEN 40
             ELSE 10

calc_volume_score(ind) ==
    IF ~has_data(ind) THEN 40
    ELSE IF ind.volume_ratio = None THEN 40
    ELSE LET volume_ratio == ind.volume_ratio[1]
         IN  IF volume_ratio >= 20 THEN 60
             ELSE IF volume_ratio >= 15 THEN 80
             ELSE IF volume_ratio >= 10 THEN 60
             ELSE IF volume_ratio >= 5 THEN 40
             ELSE 20

AnalyzerResult(ind, total, arr, div, rsi, macd, volume) ==
    [has_data |-> has_data(ind),
     total_score |-> RoundDiv(total, 1),
     max_score |-> MAX_TOTAL,
     details |-> [ma_arrangement |-> arr, ma_divergence |-> div,
                  rsi |-> rsi, macd |-> macd, volume |-> volume]]

\* variant: the volume score is reported but left out of the total
calculate_totalWithoutVolume(ind) ==
    LET arr == calc_ma_arrangement(ind)
        div == calc_ma_divergence(ind)
        rsi == calc_rsi_score(ind)
        macd == calc_macd_score(ind)
        volume == calc_volume_score(ind)
    IN  AnalyzerResult(ind, arr + div + rsi + macd, arr, div, rsi, macd,
                       volume)

calculate_total(ind) ==
    LET arr == calc_ma_arrangement(ind)
        div == calc_ma_divergence(ind)
        rsi == calc_rsi_score(ind)
        macd == calc_macd_score(ind)
        volume == calc_volume_score(ind)
    IN  AnalyzerResult(ind, arr + div + rsi + macd + volume, arr, div, rsi,
                       macd, volume)

\* indicators handed to the analyzer
IndicatorPrices == {None, Some(0), Some(85), Some(93), Some(98), Some(103),
                    Some(107), Some(112)}
IndicatorMa5 == {None, Some(97), Some(102)}
IndicatorMa20 == {Some(0), Some(100)}
IndicatorMa60 == {None, Some(99), Some(101)}
IndicatorMa120 == {Some(0), Some(98), Some(102)}
IndicatorRsi == {None, Some(25), Some(35), Some(50), Some(65), Some(75)}
IndicatorMacd == {None, Some(-1), Some(1)}
IndicatorVolumeRatios == {None, Some(3), Some(5), Some(10), Some(15), Some(20)}

Indicators(hd, price, m5, m20, m60, m120, rsi, macd, hist, vr) ==
    [has_data |-> hd, current_price |-> price, ma5 |-> m5, ma20 |-> m20,
     ma60 |-> m60, ma120 |-> m120, rsi14 |-> rsi, macd |-> macd,
     macd_hist |-> hist, volume_ratio |-> vr]

\* what the indicator calculator reports when it has no price rows
NoDataIndicators ==
    Indicators(FALSE, None, None, None, None, None, None, None, None, None)

IndicatorInputs ==
    {NoDataIndicators} \cup
    {Indicators(TRUE, price, m5, m20, m60, m120, rsi, macd, hist, vr) :
       price \in IndicatorPrices, m5 \in IndicatorMa5, m20 \in IndicatorMa20,
       m60 \in IndicatorMa60, m120 \in IndicatorMa120, rsi \in IndicatorRsi,
       macd \in IndicatorMacd, hist \in IndicatorMacd,
       vr \in IndicatorVolumeRatios}

\* ------------------------------------------------------------- scoring
\* variant: a failure of the indicator pipeline scores 0.0
_calculate_scoreZeroOnError(prices, outcome) ==
    IF Len(prices) < MinScoreWindow THEN NeutralScore
    ELSE IF outcome.kind = "exception" THEN 0
    ELSE IF outcome.kind = "no_data" THEN NeutralScore
    ELSE outcome.total

_calculate_score(prices, outcome) ==
    IF Len(prices) < MinScoreWindow THEN NeutralScore
    ELSE IF outcome.kind = "exception" THEN NeutralScore
    ELSE IF outcome.kind = "no_data" THEN NeutralScore
    ELSE outcome.total

\* --------------------------------------------------------- trading rule
\* variant: the buy condition without the position test
ShouldBuyAnyPosition(pos, score) == score >= params.buy_threshold

ShouldBuy(pos, score) == pos = 0 /\ score >= params.buy_threshold

\* variant: the sell condition against the buy threshold
ShouldSellBelowBuy(pos, score) == pos > 0 /\ score < params.buy_threshold

ShouldSell(pos, score) == pos > 0 /\ score < params.sell_threshold

\* variant: sizing on the whole cash balance
BuySharesAllCash(c, price) == c \div price

\* int(available // price) with available = cash * (1 - commission_rate)
BuyShares(c, price) == (c * (RateDen - params.commission_rate)) \div (RateDen * price)

\* variant: no commission on the buy side
BuyCommissionFree(cost) == 0

BuyCommission(cost) == IntTrunc(cost * params.commission_rate, RateDen)

SellCommission(proceeds) == IntTrunc(proceeds * params.commission_rate, RateDen)

\* variant: the percentage from the profit after fees
ProfitPctAfterFees(price, cost_price) ==
    RoundPct2(price * position - SellCommission(price * position)
                - IntTrunc(price * position * params.tax_rate, RateDen)
                - cost_price * position,
              cost_price * position)

\* round((price - buy_price) / buy_price * 100, 2)
ProfitPct(price, cost_price) == RoundPct2(price - cost_price, cost_price)

\* variant: tax on the gain instead of the gross notional
SellTaxOnProfit(proceeds) ==
    IntTrunc(Max(0, proceeds - buy_price * position) * params.tax_rate, RateDen)

SellTax(proceeds) == IntTrunc(proceeds * params.tax_rate, RateDen)

\* variant: valuation from the balance before the trading rule
PortfolioValueStale(c, pos, price) == cash + position * price

PortfolioValue(c, pos, price) == c + pos * price

\* variant: label from a non-strict comparison
PositionLabelNonNeg(pos) == IF pos >= 0 THEN "holding" ELSE "cash"

PositionLabel(pos) == IF pos > 0 THEN "holding" ELSE "cash"

BuyTrade(date, price, shares, score, pv) ==
    [type |-> "buy", date |-> date, price |-> price, shares |-> shares,
     score |-> Round1(score), portfolio_value |-> pv,
     profit |-> None, profit_pct |-> None]

SellTrade(date, price, shares, score, pv, profit, pct) ==
    [type |-> "sell", date |-> date, price |-> price, shares |-> shares,
     score |-> Round1(score), portfolio_value |-> pv,
     profit |-> Some(profit), profit_pct |-> Some(pct)]

\* variant: the buy-side commission charged to the profit as well
RealizedProfitLessBuyFee(net_proceeds, cost_basis) ==
    net_proceeds - cost_basis - BuyCommission(cost_basis)

\* profit = net_proceeds - (self.buy_price * self.position)
RealizedProfit(net_proceeds, cost_basis) == net_proceeds - cost_basis

\* variant: the price guard protecting the buy branch only
BadPriceWhenFlat(price) == price <= 0 /\ position = 0

BadPrice(price) == price <= 0

\* variant: a buy of zero shares is executed
CanBuyNonNeg(shares) == shares >= 0

CanBuy(shares) == shares > 0

\* the buy branch of _apply_strategy on st
BuyBranch(st, date, price, score) ==
    LET shares == BuyShares(st.cash, price)
        cost == shares * price
        commission == BuyCommission(cost)
        newcash == st.cash - (cost + commission)
    IN  IF CanBuy(shares)
        THEN [position |-> shares, cash |-> newcash, buy_price |-> price,
              trades |-> Append(st.trades,
                  BuyTrade(date, price, shares, score,
                           newcash + shares * price))]
        ELSE st

\* the sell branch of _apply_strategy on st
SellBranch(st, date, price, score) ==
    LET proceeds == st.position * price
        commission == SellCommission(proceeds)
        tax == SellTax(proceeds)
        net_proceeds == proceeds - commission - tax
        profit == RealizedProfit(net_proceeds, st.buy_price * st.position)
        pct == ProfitPct(price, st.buy_price)
        newcash == st.cash + net_proceeds
    IN  [position |-> 0, cash |-> newcash, buy_price |-> 0,
         trades |-> Append(st.trades,
             SellTrade(date, price, st.position, score, newcash, profit, pct))]

\* variant: the sell condition tested with if instead of elif, after the
\* buy branch has run
ApplyStrategyFallThrough(st, date, price, score) ==
    IF BadPrice(price) THEN st
    ELSE LET bought == IF ShouldBuy(st.position, score)
                       THEN BuyBranch(st, date, price, score) ELSE st
         IN  IF ShouldSell(bought.position, score)
             THEN SellBranch(bought, date, price, score)
             ELSE bought

\* the engine fields after _apply_strategy(date, price, score) on st
_apply_strategy(st, date, price, score) ==
    IF BadPrice(price) THEN st
    ELSE IF ShouldBuy(st.position, score) THEN
        BuyBranch(st, date, price, score)
    ELSE IF ShouldSell(st.position, score) THEN
        SellBranch(st, date, price, score)
    ELSE st

Snapshot(date, price, score, c, pos) ==
    [date |-> date, price |-> price, score |-> Round1(score),
     portfolioValue |-> PortfolioValue(c, pos, price),
     position |-> PositionLabel(pos), shares |-> pos]

\* variant: the window left open at its upper end, all_prices[window_start:]
PriceSliceToEnd(prices, i) ==
    SubSeq(prices, Max(0, i - params.lookback_days + 1) + 1, Len(prices))

\* all_prices[window_start:idx + 1]
PriceSlice(prices, i) ==
    SubSeq(prices, Max(0, i - params.lookback_days + 1) + 1, i + 1)

\* ------------------------------------------------------------- metrics
\* Percentages are in hundredths of a percent, win_rate in tenths.
\* annualized_return_pct and sharpe_ratio (a real power and a square root)
\* have no integer representation and are left out of the result.
\* variant: the realized balance only
FinalValueRealized(dd) == cash

FinalValue(dd) == IF dd # <<>> THEN Last(dd).portfolioValue ELSE 0

TotalReturnPct(final, initial) == RoundPct2(final - initial, initial)

BuyHoldReturnPct(start_price, end_price) ==
    IF start_price > 0 THEN RoundPct2(end_price - start_price, start_price)
    ELSE 0

\* variant: the comparison reversed
PeakUpdateBelow(peak, pv) == IF pv < peak THEN pv ELSE peak

PeakUpdate(peak, pv) == IF pv > peak THEN pv ELSE peak

\* peak after the first i snapshots
RECURSIVE RunningPeak(_, _)
RunningPeak(dd, i) ==
    IF i = 0 THEN 0
    ELSE PeakUpdate(RunningPeak(dd, i - 1), dd[i].portfolioValue)

\* max_dd after the first i snapshots, as the fraction <<num, den>>
RECURSIVE DrawdownScan(_, _)
DrawdownScan(dd, i) ==
    IF i = 0 THEN <<0, 1>>
    ELSE LET prev == DrawdownScan(dd, i - 1)
             peak == RunningPeak(dd, i)
             pv == dd[i].portfolioValue
         IN  IF peak > 0 /\ (peak - pv) * prev[2] > prev[1] * peak
             THEN <<peak - pv, peak>>
             ELSE prev

MaxDrawdownPct(dd) ==
    LET m == DrawdownScan(dd, Len(dd)) IN RoundDiv(m[1] * 10000, m[2])

\* variant: a break-even sale counted as a win
IsWinOrEven(t) == t.profit # None /\ t.profit[1] >= 0

IsWin(t) == t.profit # None /\ t.profit[1] # 0 /\ t.profit[1] > 0

WinRate(tr) ==
    LET sell_trades == {k \in 1..Len(tr) : tr[k].type = "sell"}
        wins == {k \in sell_trades : IsWin(tr[k])}
    IN  IF sell_trades # {}
        THEN RoundDiv(Cardinality(wins) * 1000, Cardinality(sell_trades))
        ELSE 0

EmptyResult ==
    [daily_data |-> <<>>, trades |-> <<>>, trade_count |-> 0,
     final_value |-> 0, trading_days |-> 0, total_return_pct |-> 0,
     buy_hold_return_pct |-> 0, max_drawdown_pct |-> 0, win_rate |-> 0]

\* the BacktestResult built at the end of run
BuildResult(dd, tr, start_price, end_price) ==
    IF dd # <<>>
    THEN [daily_data |-> dd, trades |-> tr, trade_count |-> Len(tr),
          final_value |-> FinalValue(dd), trading_days |-> Len(dd),
          total_return_pct |->
              TotalReturnPct(FinalValue(dd), params.initial_capital),
          buy_hold_return_pct |-> BuyHoldReturnPct(start_price, end_price),
          max_drawdown_pct |-> MaxDrawdownPct(dd),
          win_rate |-> WinRate(tr)]
    ELSE [EmptyResult EXCEPT !.daily_data = dd, !.trades = tr,
                             !.trade_count = Len(tr)]

\* result.daily_data and result.trades are the engine's own list objects:
\* what the engine appends later shows in a result handed out earlier
Aliased(h, dd, tr) ==
    IF h = None THEN None
    ELSE Some([h[1] EXCEPT !.daily_data = dd, !.trades = tr])

NoTwin == <<>>

\* the engine used directly, not through the REST layer
NoRequest == [phase |-> "none"]

\* no scorer call observed
NoCall == [kind |-> "none"]

\* ------------------------------------------------------------------ Init
\* BacktestEngine.__init__ on params, before the first call of run
Constructed ==
    /\ pc = "load"
    /\ error = "none"
    /\ all_prices = <<>>
    /\ start_idx = NoIndex
    /\ end_idx = NoIndex
    /\ idx = NoIndex
    /\ price_slice = <<>>
    /\ position = 0
    /\ cash = params.initial_capital
    /\ buy_price = 0
    /\ trades = <<>>
    /\ daily_data = <<>>
    /\ result = EmptyResult
    /\ held = None

\* price_history is the table.
Init ==
    /\ price_history \in {<<>>} \cup
           {StoredSeries(tail) : tail \in [1..MaxTail -> TailCloses]}
    /\ params \in {BacktestParams(sd, ed, cap, th, lb, cr, tr) :
                     sd \in StartDates, ed \in EndDates, cap \in Capitals,
                     th \in Thresholds, lb \in Lookbacks,
                     cr \in CommissionRates, tr \in TaxRates}
    /\ Constructed
    /\ twin = NoTwin
    /\ http = NoRequest
    /\ scorer = NoCall

\* --------------------------------------------------------------- actions
\* Each step of run is stated on the engine's own variables (the ...Run
\* definitions); the actions add what happens to the twin engine.

\* run, step 1: load the series, fail when there is none, reverse to ASC
LoadRun ==
    /\ pc = "load"
    /\ IF price_history = <<>>
       THEN /\ pc' = "failed"
            /\ error' = "No price data"
            /\ UNCHANGED all_prices
       ELSE /\ pc' = "locate"
            /\ all_prices' = Reversed(price_history)
            /\ UNCHANGED error
    /\ UNCHANGED <<price_history, params, start_idx, end_idx, idx,
                   price_slice, position, cash, buy_price, trades,
                   daily_data, result, held>>

LoadPrices == LoadRun /\ UNCHANGED <<twin, http, scorer>>

\* run, step 2: locate start_idx and end_idx, fail when the range is empty
LocateRun ==
    /\ pc = "locate"
    /\ LET date_list == [i \in 1..Len(all_prices) |-> all_prices[i].date]
           s == FindStart(date_list, params.start_date)
           e == FindEnd(date_list, params.end_date)
       IN  IF s = NoIndex
           THEN /\ pc' = "failed"
                /\ error' = "No data after"
                /\ UNCHANGED <<start_idx, end_idx, idx>>
           ELSE IF EndInvalid(s, e)
           THEN /\ pc' = "failed"
                /\ error' = "No data in range"
                /\ start_idx' = s
                /\ end_idx' = e
                /\ UNCHANGED idx
           ELSE /\ pc' = "loop"
                /\ start_idx' = s
                /\ end_idx' = e
                /\ idx' = s
                /\ UNCHANGED error
    /\ UNCHANGED <<price_history, params, all_prices, price_slice, position,
                   cash, buy_price, trades, daily_data, result, held>>

LocateRange == LocateRun /\ UNCHANGED <<twin, http, scorer>>

\* run, step 3: one iteration of the day loop, the scorer answering outcome
DayRun(outcome) ==
    /\ pc = "loop"
    /\ idx < LoopStop(end_idx)
    /\ LET window == PriceSlice(all_prices, idx)
           current == all_prices[idx + 1]
           price == current.close_price
           date == current.date
           score == _calculate_score(window, outcome)
           st == _apply_strategy([position |-> position, cash |-> cash,
                                 buy_price |-> buy_price, trades |-> trades],
                                date, price, score)
           dd == Append(daily_data,
                        Snapshot(date, price, score, st.cash, st.position))
       IN  /\ price_slice' = window
           /\ position' = st.position
           /\ cash' = st.cash
           /\ buy_price' = st.buy_price
           /\ trades' = st.trades
           /\ daily_data' = dd
           /\ held' = Aliased(held, dd, st.trades)
    /\ idx' = idx + 1
    /\ UNCHANGED <<price_history, params, pc, error, all_prices, start_idx,
                   end_idx, result>>

DayStep ==
    /\ \E outcome \in ScorerOutcomes : DayRun(outcome)
    /\ UNCHANGED <<twin, http, scorer>>

\* run, step 4: build the BacktestResult
FinishRun ==
    /\ pc = "loop"
    /\ ~(idx < LoopStop(end_idx))
    /\ result' = BuildResult(daily_data, trades,
                             all_prices[start_idx + 1].close_price,
                             all_prices[end_idx + 1].close_price)
    /\ pc' = "done"
    /\ UNCHANGED <<price_history, params, error, all_prices, start_idx,
                   end_idx, idx, price_slice, position, cash, buy_price,
                   trades, daily_data, held>>

Finish == FinishRun /\ UNCHANGED <<twin, http, scorer>>

Next == LoadPrices \/ LocateRange \/ DayStep \/ Finish

\* The same engine on realistic price levels: a capital of 30000, closes of
\* 18000..20001, a zero and a negative close, the default thresholds, the
\* run covering the free days.
WideCloses == {-1, 0, 18000, 20000, 20001}

WideCapitals == {30000}

InitWide ==
    /\ price_history \in
           {StoredSeries(tail) : tail \in [1..MaxTail -> WideCloses]}
    /\ params \in {BacktestParams(TailDate + 1, LastDate, cap,
                                  <<DefaultBuyThreshold, DefaultSellThreshold>>,
                                  DefaultLookback, cr, tr) :
                     cap \in WideCapitals,
                     cr \in CommissionRates, tr \in TaxRates}
    /\ Constructed
    /\ twin = NoTwin
    /\ http = NoRequest
    /\ scorer = NoCall

SpecWide == InitWide /\ [][Next]_vars

\* A second call of run on the same engine object after the first returned:
\* run starts again at its first statement with fresh locals; __init__ is
\* not run again, so the fields keep what the first call left.  The holder
\* of the first BacktestResult keeps it.
Rerun ==
    /\ pc = "done"
    /\ held = None
    /\ held' = Some(result)
    /\ pc' = "load"
    /\ all_prices' = <<>>
    /\ start_idx' = NoIndex
    /\ end_idx' = NoIndex
    /\ idx' = NoIndex
    /\ price_slice' = <<>>
    /\ result' = EmptyResult
    /\ UNCHANGED <<price_history, params, error, position, cash, buy_price,
                   trades, daily_data, twin, http, scorer>>

NextRerun == Next \/ Rerun

InitRerun ==
    /\ price_history \in
           {StoredSeries(tail) : tail \in [1..MaxTail -> TailCloses]}
    /\ params \in {BacktestParams(TailDate + 1, LastDate, cap,
                                  <<DefaultBuyThreshold, DefaultSellThreshold>>,
                                  DefaultLookback, 1, 0) :
                     cap \in Capitals}
    /\ Constructed
    /\ twin = NoTwin
    /\ http = NoRequest
    /\ scorer = NoCall

SpecRerun == InitRerun /\ [][NextRerun]_vars

\* Two engines side by side: the second, twin, is constructed from the same
\* params and runs on a series of the same dates whose closes are the
\* first engine's up to some day and differ on every day after it.
\* The scorer is a function of the window it is given: on equal windows
\* both engines get the same outcome.
PairCloses == {1, 3}

TwinConstructed(rows) ==
    [price_history |-> rows, all_prices |-> <<>>, start_idx |-> NoIndex,
     end_idx |-> NoIndex, idx |-> NoIndex, price_slice |-> <<>>,
     position |-> 0, cash |-> params.initial_capital, buy_price |-> 0,
     trades |-> <<>>, daily_data |-> <<>>]

\* the closes of tail kept for the first n free days, the other close after
DivergeAfter(tail, n) ==
    [k \in 1..MaxTail |->
        IF k <= n THEN tail[k]
        ELSE CHOOSE c \in PairCloses : c # tail[k]]

InitPair ==
    /\ params \in {BacktestParams(TailDate + 1, LastDate, cap,
                                  <<DefaultBuyThreshold, DefaultSellThreshold>>,
                                  lb, 1, 0) :
                     cap \in Capitals,
                     lb \in {MinScoreWindow, DefaultLookback}}
    /\ \E tail \in [1..MaxTail -> PairCloses], n \in 0..MaxTail :
          /\ price_history = StoredSeries(tail)
          /\ twin = TwinConstructed(StoredSeries(DivergeAfter(tail, n)))
    /\ Constructed
    /\ http = NoRequest
    /\ scorer = NoCall

PairLoad ==
    /\ LoadRun
    /\ twin' = [twin EXCEPT !.all_prices = Reversed(twin.price_history)]
    /\ UNCHANGED <<http, scorer>>

PairLocate ==
    /\ LocateRun
    /\ LET date_list == [i \in 1..Len(twin.all_prices) |->
                            twin.all_prices[i].date]
           s == FindStart(date_list, params.start_date)
           e == FindEnd(date_list, params.end_date)
       IN  twin' = [twin EXCEPT !.start_idx = s, !.end_idx = e, !.idx = s]
    /\ UNCHANGED <<http, scorer>>

\* variant: the ledger is one list shared by every engine
TwinStateSharedLedger(t) ==
    [position |-> t.position, cash |-> t.cash, buy_price |-> t.buy_price,
     trades |-> trades]

\* the fields _apply_strategy reads and writes, on the second engine: the
\* attributes its own constructor bound
TwinState(t) ==
    [position |-> t.position, cash |-> t.cash, buy_price |-> t.buy_price,
     trades |-> t.trades]

TwinDay(outcome) ==
    LET window == PriceSlice(twin.all_prices, twin.idx)
        current == twin.all_prices[twin.idx + 1]
        score == _calculate_score(window, outcome)
        st == _apply_strategy(TwinState(twin),
                              current.date, current.close_price, score)
    IN  [twin EXCEPT !.price_slice = window,
                     !.position = st.position,
                     !.cash = st.cash,
                     !.buy_price = st.buy_price,
                     !.trades = st.trades,
                     !.daily_data = Append(twin.daily_data,
                                           Snapshot(current.date,
                                                    current.close_price, score,
                                                    st.cash, st.position)),
                     !.idx = twin.idx + 1]

PairDay ==
    \E outcome, twin_outcome \in ScorerOutcomes :
        /\ pc = "loop"
        /\ idx < LoopStop(end_idx)
        /\ (PriceSlice(all_prices, idx) = PriceSlice(twin.all_prices, twin.idx)
               => outcome = twin_outcome)
        /\ DayRun(outcome)
        /\ twin.idx < LoopStop(twin.end_idx)
        /\ twin' = TwinDay(twin_outcome)
        /\ UNCHANGED <<http, scorer>>

PairFinish == FinishRun /\ UNCHANGED <<twin, http, scorer>>

NextPair == PairLoad \/ PairLocate \/ PairDay \/ PairFinish

SpecPair == InitPair /\ [][NextPair]_vars

\* The same engine on a longer run: LongTail free days of closes 1 and 3,
\* enough for three round trips, without commission and tax, under the
\* default thresholds and under a sell threshold above the buy threshold.
LongTail == MaxTail + 3

LongCloses == {1, 3}

LongSeries(tail) ==
    LET n == MinScoreWindow - 1 + LongTail
    IN  [k \in 1..n |->
            LET i == n - k
            IN  [date |-> DateStride * (i + 1),
                 close_price |-> IF i < MinScoreWindow - 1 THEN WarmupClose
                                 ELSE tail[i - (MinScoreWindow - 1) + 1]]]

InitLong ==
    /\ price_history \in
           {LongSeries(tail) : tail \in [1..LongTail -> LongCloses]}
    /\ params \in {BacktestParams(TailDate + 1,
                                  DateStride * (MinScoreWindow - 1 + LongTail),
                                  cap,
                                  th, DefaultLookback, 0, 0) :
                     cap \in Capitals,
                     th \in {<<DefaultBuyThreshold, DefaultSellThreshold>>,
                             <<NeutralScore, DefaultBuyThreshold>>}}
    /\ Constructed
    /\ twin = NoTwin
    /\ http = NoRequest
    /\ scorer = NoCall

SpecLong == InitLong /\ [][Next]_vars

\* The analyzer on its own: one TechnicalAnalyzer per indicators input, and
\* one call of calculate_total on it.
IdleParams ==
    BacktestParams(1, LastDate, 10,
                   <<DefaultBuyThreshold, DefaultSellThreshold>>,
                   DefaultLookback, 0, 0)

InitAnalyzer ==
    /\ price_history = <<>>
    /\ params = IdleParams
    /\ Constructed
    /\ twin = NoTwin
    /\ http = NoRequest
    /\ \E ind \in IndicatorInputs :
          scorer = [kind |-> "analyzer", indicators |-> ind, result |-> None]

CalculateTotal ==
    /\ scorer.kind = "analyzer"
    /\ scorer.result = None
    /\ scorer' = [scorer EXCEPT !.result = Some(calculate_total(scorer.indicators))]
    /\ UNCHANGED <<price_history, params, pc, error, all_prices, start_idx,
                   end_idx, idx, price_slice, position, cash, buy_price,
                   trades, daily_data, result, held, twin, http>>

NextAnalyzer == CalculateTotal

SpecAnalyzer == InitAnalyzer /\ [][NextAnalyzer]_vars

\* The run with the scorer's pipeline observed.  A scorer call is what the
\* two collaborators do on the day's window: TechnicalIndicators.calculate_all
\* raises or returns indicators, and TechnicalAnalyzer.calculate_total raises
\* or returns its result.
BullishIndicators ==
    Indicators(TRUE, Some(103), Some(102), Some(100), Some(99), Some(98),
               Some(35), Some(1), Some(1), Some(15))

BearishIndicators ==
    Indicators(TRUE, Some(93), Some(97), Some(100), Some(101), Some(102),
               Some(75), Some(-1), Some(-1), Some(3))

ScorerCalls ==
    {[raises |-> "indicators", indicators |-> NoDataIndicators]} \cup
    {[raises |-> r, indicators |-> ind] :
       r \in {"none", "analyzer"},
       ind \in {NoDataIndicators, BullishIndicators, BearishIndicators}}

\* what the engine's try block makes of a call
OutcomeOf(call) ==
    IF call.raises = "indicators" THEN [kind |-> "exception", total |-> 0]
    ELSE IF ~call.indicators.has_data THEN [kind |-> "no_data", total |-> 0]
    ELSE IF call.raises = "analyzer" THEN [kind |-> "exception", total |-> 0]
    ELSE [kind |-> "score",
          total |-> calculate_total(call.indicators).total_score]

\* the statement of _calculate_score that returns
ReturnPath(prices, call) ==
    IF Len(prices) < MinScoreWindow THEN "short"
    ELSE OutcomeOf(call).kind

CallsSoFar == IF scorer.kind = "engine" THEN scorer.calls ELSE 0

ScoredDayStep ==
    /\ \E call \in ScorerCalls :
          /\ DayRun(OutcomeOf(call))
          /\ LET prices == PriceSlice(all_prices, idx)
             IN  scorer' = [kind |-> "engine",
                            calls |-> CallsSoFar + 1,
                            prices |-> prices,
                            path |-> ReturnPath(prices, call),
                            returned |-> _calculate_score(prices,
                                                          OutcomeOf(call))]
    /\ UNCHANGED <<twin, http>>

InitScored ==
    /\ price_history \in {StoredSeries(tail) : tail \in [1..MaxTail -> TailCloses]}
    /\ params \in {BacktestParams(sd, LastDate, cap, th, lb, 0, 0) :
                     sd \in {1, TailDate + 1}, cap \in Capitals,
                     th \in {<<DefaultBuyThreshold, DefaultSellThreshold>>},
                     lb \in Lookbacks}
    /\ Constructed
    /\ twin = NoTwin
    /\ http = NoRequest
    /\ scorer = NoCall

NextScored == LoadPrices \/ LocateRange \/ ScoredDayStep \/ Finish

SpecScored == InitScored /\ [][NextScored]_vars

\* Two engines run concurrently by one caller, a day at a time in any
\* order.  The scorer is a pure function of the window; scorer.table gives
\* its outcome by the window's last close.
engine == <<price_history, params, pc, error, all_prices, start_idx, end_idx,
            idx, price_slice, position, cash, buy_price, trades, daily_data,
            result, held>>

ScorerTables == [PairCloses -> ScorerOutcomes]

ScoreOf(window) == scorer.table[Last(window).close_price]

ConcTwinConstructed(rows) ==
    [price_history |-> rows, all_prices |-> <<>>, start_idx |-> NoIndex,
     end_idx |-> NoIndex, idx |-> NoIndex, price_slice |-> <<>>,
     position |-> 0, cash |-> params.initial_capital, buy_price |-> 0,
     trades |-> <<>>, daily_data |-> <<>>, pc |-> "load", error |-> "none",
     result |-> EmptyResult]

InitConc ==
    /\ params \in {BacktestParams(TailDate + 1, LastDate, cap,
                                  <<DefaultBuyThreshold, DefaultSellThreshold>>,
                                  lb, 1, 0) :
                     cap \in Capitals,
                     lb \in {MinScoreWindow, DefaultLookback}}
    /\ \E tail \in [1..MaxTail -> PairCloses], n \in 0..MaxTail :
          /\ price_history = StoredSeries(tail)
          /\ twin = ConcTwinConstructed(StoredSeries(DivergeAfter(tail, n)))
    /\ Constructed
    /\ http = NoRequest
    /\ \E table \in ScorerTables : scorer = [kind |-> "pure", table |-> table]

ConcLoad == LoadRun /\ UNCHANGED <<twin, http, scorer>>

ConcLocate == LocateRun /\ UNCHANGED <<twin, http, scorer>>

ConcDay ==
    /\ pc = "loop"
    /\ idx < LoopStop(end_idx)
    /\ DayRun(ScoreOf(PriceSlice(all_prices, idx)))
    /\ UNCHANGED <<twin, http, scorer>>

ConcFinish == FinishRun /\ UNCHANGED <<twin, http, scorer>>

TwinLoad ==
    /\ twin.pc = "load"
    /\ twin' = IF twin.price_history = <<>>
               THEN [twin EXCEPT !.pc = "failed", !.error = "No price data"]
               ELSE [twin EXCEPT !.pc = "locate",
                                 !.all_prices = Reversed(twin.price_history)]
    /\ UNCHANGED <<engine, http, scorer>>

TwinLocate ==
    /\ twin.pc = "locate"
    /\ LET date_list == [i \in 1..Len(twin.all_prices) |->
                            twin.all_prices[i].date]
           s == FindStart(date_list, params.start_date)
           e == FindEnd(date_list, params.end_date)
       IN  twin' = IF s = NoIndex
                   THEN [twin EXCEPT !.pc = "failed", !.error = "No data after"]
                   ELSE IF EndInvalid(s, e)
                   THEN [twin EXCEPT !.pc = "failed",
                                     !.error = "No data in range",
                                     !.start_idx = s, !.end_idx = e]
                   ELSE [twin EXCEPT !.pc = "loop", !.start_idx = s,
                                     !.end_idx = e, !.idx = s]
    /\ UNCHANGED <<engine, http, scorer>>

TwinDayStep ==
    /\ twin.pc = "loop"
    /\ twin.idx < LoopStop(twin.end_idx)
    /\ twin' = TwinDay(ScoreOf(PriceSlice(twin.all_prices, twin.idx)))
    /\ UNCHANGED <<engine, http, scorer>>

TwinFinish ==
    /\ twin.pc = "loop"
    /\ ~(twin.idx < LoopStop(twin.end_idx))
    /\ twin' = [twin EXCEPT
                  !.pc = "done",
                  !.result = BuildResult(
                      twin.daily_data, twin.trades,
                      twin.all_prices[twin.start_idx + 1].close_price,
                      twin.all_prices[twin.end_idx + 1].close_price)]
    /\ UNCHANGED <<engine, http, scorer>>

NextConc ==
    \/ ConcLoad \/ ConcLocate \/ ConcDay \/ ConcFinish
    \/ TwinLoad \/ TwinLocate \/ TwinDayStep \/ TwinFinish

SpecConc == InitConc /\ [][NextConc]_vars

\* The REST layer of backend/app/api/backtest.py.  http.lookup is what the
\* stock lookup does for the request's code: it finds the stock, finds
\* nothing, or raises.  The price rows of the code are price_history.  A
\* request is served by a fresh engine; pc = "none" while none was built.
HttpError(status, detail) ==
    [status |-> status, detail |-> detail, body |-> None]

HttpOk(body) == [status |-> 200, detail |-> "", body |-> Some(body)]

\* sqlite_db.get_date_range: MIN(date) and MAX(date) of the stored rows
get_date_range(rows) ==
    IF rows = <<>> THEN <<None, None>>
    ELSE LET dates == {rows[i].date : i \in 1..Len(rows)}
         IN  <<Some(CHOOSE d \in dates : \A o \in dates : d <= o),
               Some(CHOOSE d \in dates : \A o \in dates : d >= o)>>

NoDateRange(date_range) == date_range[1] = None

\* variant: equal thresholds pass the validation
ThresholdsRejectedStrict(sell_threshold, buy_threshold) ==
    sell_threshold > buy_threshold

ThresholdsRejected(sell_threshold, buy_threshold) ==
    sell_threshold >= buy_threshold

\* variant: no handler for ValueError, every exception is a server error
ExceptionStatusUncaught(kind) == 500

ExceptionStatus(kind) == IF kind = "ValueError" THEN 400 ELSE 500

TradeDict(t) ==
    [type |-> t.type, date |-> t.date, price |-> t.price,
     shares |-> t.shares, score |-> t.score,
     portfolioValue |-> t.portfolio_value]

TradeDictWithProfit(t) ==
    [type |-> t.type, date |-> t.date, price |-> t.price,
     shares |-> t.shares, score |-> t.score,
     portfolioValue |-> t.portfolio_value,
     profit |-> t.profit[1], profitPct |-> t.profit_pct[1]]

\* variant: the profit fields are added when the profit is truthy
SerializeTradeTruthy(t) ==
    IF t.profit # None /\ t.profit[1] # 0 THEN TradeDictWithProfit(t)
    ELSE TradeDict(t)

SerializeTrade(t) ==
    IF t.profit # None THEN TradeDictWithProfit(t) ELSE TradeDict(t)

ResponseBody(request, r) ==
    [params |-> request,
     dailyData |-> r.daily_data,
     trades |-> [i \in 1..Len(r.trades) |-> SerializeTrade(r.trades[i])],
     metrics |-> [totalReturn |-> r.total_return_pct,
                  maxDrawdown |-> r.max_drawdown_pct,
                  winRate |-> r.win_rate,
                  tradeCount |-> r.trade_count,
                  finalValue |-> r.final_value,
                  tradingDays |-> r.trading_days],
     benchmark |-> [buyHoldReturn |-> r.buy_hold_return_pct]]

BacktestRequest(sd, ed, cap, th) ==
    [start_date |-> sd, end_date |-> ed, initial_capital |-> cap,
     buy_threshold |-> th[1], sell_threshold |-> th[2]]

RequestThresholds == { <<DefaultBuyThreshold, DefaultSellThreshold>>,
                       <<NeutralScore, NeutralScore>>,
                       <<DefaultSellThreshold, DefaultBuyThreshold>> }

Requests ==
    {BacktestRequest(sd, ed, cap, th) :
       sd \in {TailDate + 1, LastDate + 1}, ed \in {0, LastDate},
       cap \in Capitals, th \in RequestThresholds}

Lookups == {"found", "missing", "error"}

\* the defaults of the BacktestParams fields the REST layer never sets
DefaultParams(cr, tr) ==
    BacktestParams(0, 0, 10, <<DefaultBuyThreshold, DefaultSellThreshold>>,
                   DefaultLookback, cr, tr)

Unbuilt ==
    /\ pc = "none"
    /\ error = "none"
    /\ all_prices = <<>>
    /\ start_idx = NoIndex
    /\ end_idx = NoIndex
    /\ idx = NoIndex
    /\ price_slice = <<>>
    /\ position = 0
    /\ cash = 0
    /\ buy_price = 0
    /\ trades = <<>>
    /\ daily_data = <<>>
    /\ result = EmptyResult
    /\ held = None

\* a request as received by one of the two routes, or an engine built by a
\* caller of its own with any thresholds
InitApi ==
    /\ price_history \in {<<>>} \cup
           {StoredSeries(tail) : tail \in [1..MaxTail -> TailCloses]}
    /\ twin = NoTwin
    /\ scorer = NoCall
    /\ \/ /\ params \in {DefaultParams(cr, tr) :
                           cr \in CommissionRates, tr \in TaxRates}
          /\ Unbuilt
          /\ \E lookup \in Lookups, request \in Requests :
                http = [phase |-> "received", endpoint |-> "run",
                        lookup |-> lookup, request |-> Some(request),
                        response |-> None]
       \/ /\ params = DefaultParams(0, 0)
          /\ Unbuilt
          /\ \E lookup \in Lookups :
                http = [phase |-> "received", endpoint |-> "date-range",
                        lookup |-> lookup, request |-> None,
                        response |-> None]
       \/ /\ params \in {BacktestParams(TailDate + 1, LastDate, cap, th,
                                        DefaultLookback, 0, 0) :
                           cap \in Capitals,
                           th \in {<<NeutralScore, DefaultBuyThreshold>>,
                                   <<NeutralScore, NeutralScore>>}}
          /\ Constructed
          /\ http = NoRequest

Respond(response) ==
    http' = [http EXCEPT !.phase = "responded", !.response = Some(response)]

\* run_backtest up to engine = BacktestEngine(params)
RunBacktestValidate ==
    /\ http.phase = "received"
    /\ http.endpoint = "run"
    /\ LET request == http.request[1]
       IN  IF http.lookup = "error"
           THEN /\ Respond(HttpError(ExceptionStatus("Exception"),
                                     "lookup failed"))
                /\ UNCHANGED engine
           ELSE IF http.lookup = "missing"
           THEN /\ Respond(HttpError(404, "Stock not found"))
                /\ UNCHANGED engine
           ELSE IF NoDateRange(get_date_range(price_history))
           THEN /\ Respond(HttpError(400, "No price data available for this stock"))
                /\ UNCHANGED engine
           ELSE IF ThresholdsRejected(request.sell_threshold,
                                      request.buy_threshold)
           THEN /\ Respond(HttpError(400, "sell_threshold must be less than buy_threshold"))
                /\ UNCHANGED engine
           ELSE /\ http' = [http EXCEPT !.phase = "running"]
                /\ params' = BacktestParams(
                                 request.start_date, request.end_date,
                                 request.initial_capital,
                                 <<request.buy_threshold,
                                   request.sell_threshold>>,
                                 params.lookback_days, params.commission_rate,
                                 params.tax_rate)
                /\ pc' = "load"
                /\ error' = "none"
                /\ all_prices' = <<>>
                /\ start_idx' = NoIndex
                /\ end_idx' = NoIndex
                /\ idx' = NoIndex
                /\ price_slice' = <<>>
                /\ position' = 0
                /\ cash' = request.initial_capital
                /\ buy_price' = 0
                /\ trades' = <<>>
                /\ daily_data' = <<>>
                /\ result' = EmptyResult
                /\ UNCHANGED <<price_history, held>>
    /\ UNCHANGED <<twin, scorer>>

\* run_backtest from the return of engine.run() on
RunBacktestRespond ==
    /\ http.phase = "running"
    /\ pc \in {"done", "failed"}
    /\ IF pc = "done"
       THEN Respond(HttpOk(ResponseBody(http.request[1], result)))
       ELSE Respond(HttpError(ExceptionStatus("ValueError"), error))
    /\ UNCHANGED <<engine, twin, scorer>>

GetDateRange ==
    /\ http.phase = "received"
    /\ http.endpoint = "date-range"
    /\ LET date_range == get_date_range(price_history)
       IN  IF http.lookup = "error"
           THEN Respond(HttpError(ExceptionStatus("Exception"),
                                  "lookup failed"))
           ELSE IF http.lookup = "missing"
           THEN Respond(HttpError(404, "Stock not found"))
           ELSE IF NoDateRange(date_range)
           THEN Respond(HttpError(400, "No price data available"))
           ELSE Respond(HttpOk([startDate |-> date_range[1][1],
                                endDate |-> date_range[2][1]]))
    /\ UNCHANGED <<engine, twin, scorer>>

NextApi ==
    \/ RunBacktestValidate
    \/ LoadPrices \/ LocateRange \/ DayStep \/ Finish
    \/ RunBacktestRespond
    \/ GetDateRange

SpecApi == InitApi /\ [][NextApi]_vars

Spec == Init /\ [][Next]_vars

\* ------------------------------------------------ vocabulary of the claims
\* the step records one simulated day
DayTaken == pc = "loop" /\ Len(daily_data') = Len(daily_data) + 1

\* close price and date of the day about to be simulated
TodayClose == all_prices[idx + 1].close_price

TodayDate == all_prices[idx + 1].date

\* floor(n / d) for n >= 0, d > 0, stated by its defining inequality
FloorOf(n, d) == CHOOSE q \in 0..n : q * d <= n /\ n < (q + 1) * d

\* exactly one trade was appended by the step
OneTradeAppended ==
    /\ Len(trades') = Len(trades) + 1
    /\ SubSeq(trades', 1, Len(trades)) = trades

LedgerUntouched == UNCHANGED <<position, cash, buy_price, trades>>

\* the snapshot of the day on which trade t executed
SnapshotOf(t) == CHOOSE s \in {daily_data[i] : i \in 1..Len(daily_data)} :
                     s.date = t.date

HasSnapshot(t) == \E i \in 1..Len(daily_data) : daily_data[i].date = t.date

AscDates == {all_prices[i].date : i \in 1..Len(all_prices)}

\* 0-based indexes of the loaded series on or after start_date / up to end_date
FromStart == {i \in 0..(Len(all_prices) - 1) :
                 all_prices[i + 1].date >= params.start_date}

UpToEnd == {i \in 0..(Len(all_prices) - 1) :
               all_prices[i + 1].date <= params.end_date}

MinOf(S) == CHOOSE m \in S : \A x \in S : m <= x

MaxOf(S) == CHOOSE m \in S : \A x \in S : m >= x

\* ------------------------------------------------------------------- C1
\* C1: on a day where the engine is FLAT, the close is > 0 and the score is
\* >= buy_threshold, shares = floor(cash * (1 - commission_rate) / price);
\* when shares > 0 the step debits shares*price + commission (commission on
\* shares*price) from cash, sets the position to shares and the average
\* cost to the price, and appends exactly one BUY trade.
C1_BuyTransition ==
    [][(DayTaken /\ position = 0 /\ TodayClose > 0
          /\ Last(daily_data').score >= params.buy_threshold) =>
        LET price == TodayClose
            shares == FloorOf(cash * (RateDen - params.commission_rate),
                              RateDen * price)
            commission == FloorOf(shares * price * params.commission_rate,
                                  RateDen)
        IN  shares > 0 =>
              /\ cash' = cash - (shares * price + commission)
              /\ position' = shares
              /\ buy_price' = price
              /\ OneTradeAppended
              /\ Last(trades').type = "buy"
              /\ Last(trades').shares = shares
              /\ Last(trades').price = price
              /\ Last(trades').date = TodayDate]_vars

C1_Witness ==
    /\ trades # <<>>
    /\ daily_data # <<>>
    /\ Last(trades).type = "buy"
    /\ Last(trades).date = Last(daily_data).date
    /\ params.commission_rate > 0
    /\ cash + position * buy_price < params.initial_capital

\* ------------------------------------------------------------------- C2
SellEffect ==
    LET price == TodayClose
        proceeds == position * price
        commission == FloorOf(proceeds * params.commission_rate, RateDen)
        tax == FloorOf(proceeds * params.tax_rate, RateDen)
        net_proceeds == proceeds - commission - tax
    IN  /\ cash' = cash + net_proceeds
        /\ position' = 0
        /\ OneTradeAppended
        /\ Last(trades').type = "sell"
        /\ Last(trades').shares = position
        /\ Last(trades').profit = Some(net_proceeds - buy_price * position)

\* C2 as stated: on every day where the engine is HOLDING and the score is
\* < sell_threshold the whole position is liquidated.
C2_SellAnyPrice ==
    [][(DayTaken /\ position > 0
          /\ Last(daily_data').score < params.sell_threshold) =>
        SellEffect]_vars

\* C2 amended: on a day where the engine is HOLDING, the close is > 0 and
\* the score is < sell_threshold, the whole position is liquidated: cash is
\* credited with shares*price - commission - tax (both on the gross
\* notional), the position becomes 0 and exactly one SELL trade is appended
\* whose realized profit is net_proceeds - average_cost*shares.
C2_SellTransition ==
    [][(DayTaken /\ position > 0 /\ TodayClose > 0
          /\ Last(daily_data').score < params.sell_threshold) =>
        SellEffect]_vars

C2_Witness ==
    /\ trades # <<>>
    /\ Last(trades).type = "sell"
    /\ params.tax_rate > 0
    /\ params.commission_rate > 0
    /\ Last(trades).price > trades[Len(trades) - 1].price
    /\ Last(trades).profit # Some(0)

\* ------------------------------------------------------------------- C3
\* C3: on a day where the engine is FLAT with score < buy_threshold, or
\* HOLDING with score >= sell_threshold, position, cash, average cost and
\* the ledger are unchanged; a score >= buy_threshold while HOLDING never
\* buys additional shares.
C3_NoTransition ==
    [][DayTaken =>
        LET score == Last(daily_data').score
        IN  /\ (position = 0 /\ score < params.buy_threshold) => LedgerUntouched
            /\ (position > 0 /\ score >= params.sell_threshold) => LedgerUntouched
            /\ (position > 0 /\ score >= params.buy_threshold) =>
                  /\ position' <= position
                  /\ (trades' # trades => Last(trades').type # "buy")]_vars

C3_Witness ==
    /\ Len(daily_data) >= 2
    /\ trades # <<>>
    /\ position > 0
    /\ Last(daily_data).score >= params.buy_threshold
    /\ Last(trades).date < Last(daily_data).date
    /\ cash >= Last(daily_data).price
    /\ Last(daily_data).price > 0

\* ------------------------------------------------------------------- C4
\* C4: the portfolioValue of a snapshot equals the cash balance plus the
\* position times that day's close, after that day's trading rule; a
\* recorded snapshot is not altered by later days.
C4_CashConservation ==
    /\ []((pc \in {"loop", "done"} /\ daily_data # <<>>) =>
            /\ Last(daily_data).portfolioValue =
                   cash + position * all_prices[idx].close_price
            /\ Last(daily_data).price = all_prices[idx].close_price
            /\ Last(daily_data).shares = position)
    /\ [][\A i \in 1..Len(daily_data) :
            i <= Len(daily_data') /\ daily_data'[i] = daily_data[i]]_vars

C4_Witness ==
    /\ daily_data # <<>>
    /\ position > 0
    /\ cash > 0
    /\ Last(daily_data).price # buy_price
    /\ Last(daily_data).portfolioValue > params.initial_capital

\* ------------------------------------------------------------------- C5
\* C5: every snapshot is "holding" iff its shares > 0 and "cash" otherwise;
\* the snapshot of a BUY day is holding, the snapshot of a SELL day is cash
\* with shares = 0.
C5_Exclusivity ==
    /\ \A i \in 1..Len(daily_data) :
          /\ daily_data[i].position \in {"holding", "cash"}
          /\ daily_data[i].position = "holding" <=> daily_data[i].shares > 0
    /\ \A k \in 1..Len(trades) :
          /\ HasSnapshot(trades[k])
          /\ trades[k].type = "buy" =>
                /\ SnapshotOf(trades[k]).position = "holding"
                /\ SnapshotOf(trades[k]).shares = trades[k].shares
          /\ trades[k].type = "sell" =>
                /\ SnapshotOf(trades[k]).position = "cash"
                /\ SnapshotOf(trades[k]).shares = 0

C5_Witness ==
    /\ Len(trades) >= 2
    /\ trades[1].type = "buy"
    /\ trades[2].type = "sell"
    /\ SnapshotOf(trades[1]).position = "holding"
    /\ SnapshotOf(trades[2]).position = "cash"

\* ------------------------------------------------------------------- C6
\* C6: the position is a non-negative integer, the cash balance is never
\* negative, and a BUY is only executed while the position is 0.
C6_LongOnly ==
    /\ [](position \in Nat /\ cash \in Nat)
    /\ [][(trades' # trades /\ Last(trades').type = "buy") =>
            (position = 0 /\ position' > 0
             /\ cash' + position' * buy_price' <= cash)]_vars

C6_Witness ==
    /\ position > 0
    /\ cash <= 1
    /\ Len(trades) = 3
    /\ params.commission_rate > 0

\* ------------------------------------------------------------------- C7
ScoresOfRun == [i \in 1..Len(daily_data) |-> daily_data[i].score]

HysteresisExample ==
    /\ params.buy_threshold = DefaultBuyThreshold
    /\ params.sell_threshold = DefaultSellThreshold
    /\ ScoresOfRun = <<250, 150, 250>>

\* the first simulated day can afford at least one share at a positive close
FirstDayAffordable ==
    /\ daily_data[1].price > 0
    /\ FloorOf(params.initial_capital * (RateDen - params.commission_rate),
               RateDen * daily_data[1].price) > 0

LocationDone == pc \in {"failed", "loop", "done"} /\ price_history # <<>>

NoDataFailure == pc = "failed" /\ error \in {"No data after", "No data in range"}

\* C8: for a non-empty ascending series, range location fails with the
\* no-data error exactly when no date is >= start_date, or no date is
\* <= end_date, or the last index up to end_date is before the first index
\* from start_date; otherwise it succeeds.
C8_NoDataInRange ==
    LocationDone =>
      /\ NoDataFailure <=>
            \/ FromStart = {}
            \/ UpToEnd = {}
            \/ MaxOf(UpToEnd) < MinOf(FromStart)
      /\ ~NoDataFailure => pc \in {"loop", "done"}

C8_Witness ==
    /\ NoDataFailure
    /\ FromStart # {}
    /\ UpToEnd # {}
    /\ params.start_date <= params.end_date

FairSpec == Spec /\ WF_vars(Next)

\* ------------------------------------------------------------------ C11
\* the two series agree at every 0-based index up to and including i
AgreeUpTo(i) ==
    \A k \in 1..(i + 1) : all_prices[k] = twin.all_prices[k]

\* C11: the window scored on day i is exactly the entries with indexes
\* max(0, i - lookback_days + 1) .. i of the full series: its last entry
\* is day i itself and it may start before start_date; when two series
\* agree up to and including index i, both engines score the same window
\* on day i and the score, the trades and the snapshot of day i are equal.
C11_NoLookAhead ==
    [][DayTaken =>
        LET i == idx
            lo == IF i - params.lookback_days + 1 > 0
                  THEN i - params.lookback_days + 1 ELSE 0
        IN  /\ Len(price_slice') = i - lo + 1
            /\ \A k \in 1..(i - lo + 1) :
                  price_slice'[k] = all_prices[lo + k]
            /\ Last(price_slice') = all_prices[i + 1]
            /\ lo < start_idx
            /\ (AgreeUpTo(i) =>
                  /\ price_slice' = twin'.price_slice
                  /\ Last(daily_data') = Last(twin'.daily_data)
                  /\ Last(daily_data').score = Last(twin'.daily_data).score
                  /\ trades' = twin'.trades
                  /\ daily_data' = twin'.daily_data)]_vars

\* two series that part after a day on which a trade executed: the window
\* of that day started after index 0 and before start_date, and both
\* engines hold the same ledger and snapshots
C11_Witness ==
    /\ twin # NoTwin
    /\ pc = "loop"
    /\ Len(daily_data) = 2
    /\ idx <= end_idx
    /\ AgreeUpTo(idx - 1)
    /\ all_prices[idx + 1] # twin.all_prices[idx + 1]
    /\ params.lookback_days = MinScoreWindow
    /\ Len(price_slice) = MinScoreWindow
    /\ price_slice[1] = all_prices[idx - MinScoreWindow + 1]
    /\ trades # <<>>
    /\ Last(trades).date = Last(daily_data).date
    /\ Last(daily_data).score # NeutralScore
    /\ daily_data = twin.daily_data
    /\ trades = twin.trades

\* ------------------------------------------------------------------ C12
\* C12: two runs with the same BacktestParams, the same stored series and
\* the same scorer outputs return equal BacktestResults: the same snapshot
\* sequence, the same ledger and the same metrics.  The two runs here are
\* two calls of run on one engine, with the scorer answering the second call
\* as it answered the first.
C12_Idempotent ==
    (pc = "done" /\ held # None
        /\ \A k \in 1..Len(daily_data) \div 2 :
              daily_data[k + Len(daily_data) \div 2].score
                  = daily_data[k].score)
      => /\ result.trading_days = held[1].trading_days
         /\ result.final_value = held[1].final_value
         /\ result.trade_count = held[1].trade_count
         /\ result.total_return_pct = held[1].total_return_pct
         /\ result.max_drawdown_pct = held[1].max_drawdown_pct
         /\ result.win_rate = held[1].win_rate

\* ------------------------------------------------------------------ C13
\* C13: every call of run starts FLAT with cash equal to initial_capital,
\* an empty trade ledger and an empty snapshot sequence, whatever an earlier
\* call on the same engine left.
C13_FreshStart ==
    (pc = "load") =>
        /\ position = 0
        /\ cash = params.initial_capital
        /\ trades = <<>>
        /\ daily_data = <<>>

\* ------------------------------------------------------------------ C14
\* C14: a BacktestResult that was returned is never mutated afterwards:
\* its snapshots, its ledger and its metrics stay as returned, whatever is
\* done with the engine, calling run again included.
C14_ResultFrozen ==
    [][held # None => held' = held]_vars

\* ------------------------------------------------------------------ C15
\* C15: a buy signal (FLAT, score >= buy_threshold, close > 0) for which
\* floor(cash * (1 - commission_rate) / price) is 0 executes nothing: no
\* trade is appended, cash and position are unchanged, the snapshot of the
\* day is FLAT, nothing is raised and the run goes on to the next day.
C15_InsufficientFunds ==
    [][(DayTaken /\ position = 0 /\ TodayClose > 0
          /\ Last(daily_data').score >= params.buy_threshold
          /\ FloorOf(cash * (RateDen - params.commission_rate),
                     RateDen * TodayClose) = 0) =>
        /\ LedgerUntouched
        /\ Last(daily_data').position = "cash"
        /\ Last(daily_data').shares = 0
        /\ Last(daily_data').portfolioValue = cash
        /\ pc' = "loop"
        /\ error' = "none"
        /\ idx' = idx + 1]_vars

C15_Witness ==
    /\ daily_data # <<>>
    /\ position = 0
    /\ Last(daily_data).price > 0
    /\ Last(daily_data).score >= params.buy_threshold
    /\ cash > 0
    /\ cash * (RateDen - params.commission_rate)
          < RateDen * Last(daily_data).price
    /\ \A k \in 1..Len(trades) : trades[k].date # Last(daily_data).date

\* ------------------------------------------------------------------ C16
\* C16: on a day whose close is zero or negative no transition is made,
\* whatever the score and the position: position, cash, average cost and
\* the ledger are unchanged, nothing is raised and the day is recorded.
C16_NonPositivePrice ==
    [][(DayTaken /\ TodayClose <= 0) =>
        /\ LedgerUntouched
        /\ pc' = "loop"
        /\ error' = "none"
        /\ Last(daily_data').shares = position]_vars

\* a holding day with a sell signal and a zero close, and before it a flat
\* day with a buy signal and a negative close
C16_Witness ==
    /\ Len(daily_data) >= 3
    /\ position > 0
    /\ Last(daily_data).price = 0
    /\ Last(daily_data).score < params.sell_threshold
    /\ \E i \in 1..Len(daily_data) :
          /\ daily_data[i].price < 0
          /\ daily_data[i].shares = 0
          /\ daily_data[i].score >= params.buy_threshold

\* ------------------------------------------------------------------ C17
\* C17: the run ends in either state; building the result appends no
\* trade and closes no position; when the engine is HOLDING after the last
\* day the last trade is a BUY and final_value is cash + shares * last
\* close, the open position marked to market.
C17_NoForceClose ==
    /\ [][(pc = "loop" /\ pc' = "done") =>
            UNCHANGED <<position, cash, buy_price, trades, daily_data>>]_vars
    /\ []((pc = "done" /\ position > 0) =>
            /\ trades # <<>>
            /\ Last(trades).type = "buy"
            /\ result.trades = trades
            /\ Last(result.daily_data).position = "holding"
            /\ result.final_value =
                  cash + position * all_prices[end_idx + 1].close_price)
    /\ []((pc = "done" /\ position = 0) => result.final_value = cash)

C17_Witness ==
    /\ pc = "done"
    /\ position > 0
    /\ Len(trades) = 3
    /\ all_prices[end_idx + 1].close_price > buy_price
    /\ result.final_value > cash

\* ------------------------------------------------------------------ C18
\* the SELL trades of a ledger and those closed with a profit > 0
SellsOf(tr) == {k \in 1..Len(tr) : tr[k].type = "sell"}

WinnersOf(tr) == {k \in SellsOf(tr) : tr[k].profit[1] > 0}

\* C18 as stated: win_rate equals 100 * winners / sells exactly (in
\* tenths of a percent: win_rate * sells = 1000 * winners), 0 without a
\* SELL trade.
C18_ExactRatio ==
    (pc = "done" /\ daily_data # <<>>) =>
        LET sells == Cardinality(SellsOf(trades))
            wins == Cardinality(WinnersOf(trades))
        IN  IF sells = 0 THEN result.win_rate = 0
            ELSE result.win_rate * sells = 1000 * wins

\* C18: win_rate is computed over the SELL trades only: it is the one
\* decimal value nearest to 100 * winners / sells (within 0.05), 0 when the
\* ledger holds no SELL trade; BUY trades and an open position do not enter.
C18_WinRate ==
    (pc = "done" /\ daily_data # <<>>) =>
        LET sells == Cardinality(SellsOf(trades))
            wins == Cardinality(WinnersOf(trades))
            off == result.win_rate * sells - 1000 * wins
        IN  IF sells = 0 THEN result.win_rate = 0
            ELSE /\ 2 * off <= sells
                 /\ -2 * off <= sells
                 /\ (wins = 0 => result.win_rate = 0)
                 /\ (wins = sells => result.win_rate = 1000)

\* three round trips of which one won: 33.3
C18_Witness ==
    /\ pc = "done"
    /\ Cardinality(SellsOf(trades)) = 3
    /\ Cardinality(WinnersOf(trades)) = 1
    /\ \E k \in SellsOf(trades) : trades[k].profit[1] = 0
    /\ result.win_rate = 333

\* ------------------------------------------------------------------ C19
\* C19 as stated: every SELL below the average cost records a negative
\* realized_profit_pct and a negative realized_profit; a SELL at or below
\* the average cost never records a profit > 0.
C19_PctNegative ==
    [][(DayTaken /\ OneTradeAppended /\ Last(trades').type = "sell") =>
        LET t == Last(trades')
        IN  /\ (t.price < buy_price =>
                    t.profit_pct[1] < 0 /\ t.profit[1] < 0)
            /\ (t.price <= buy_price => ~(t.profit[1] > 0))]_vars

\* C19: for every SELL below the average cost, realized_profit_pct is the
\* two decimal value nearest to (price - average_cost) / average_cost * 100,
\* taken before fees: it is never positive, and negative whenever the loss
\* is at least 0.005 % of the average cost; realized_profit, after sell
\* commission and tax, is negative; a SELL at or below the average cost
\* never has realized_profit > 0.
C19_ForcedLoss ==
    [][(DayTaken /\ OneTradeAppended /\ Last(trades').type = "sell") =>
        LET t == Last(trades')
            gap == t.price - buy_price
            off == t.profit_pct[1] * buy_price - 10000 * gap
        IN  /\ 2 * off <= buy_price /\ -2 * off <= buy_price
            /\ (t.price < buy_price =>
                    /\ t.profit_pct[1] <= 0
                    /\ (-gap * 20000 >= buy_price => t.profit_pct[1] < 0)
                    /\ t.profit[1] < 0
                    /\ t.profit[1] <= gap * position)
            /\ (t.price <= buy_price => ~(t.profit[1] > 0))]_vars

\* bought at 20000 and sold at 18000 with commission and tax: -10.00 % and
\* a loss larger than the price gap
C19_Witness ==
    /\ Len(trades) >= 2
    /\ Last(trades).type = "sell"
    /\ Last(trades).price = 18000
    /\ trades[Len(trades) - 1].price = 20000
    /\ params.commission_rate > 0
    /\ params.tax_rate > 0
    /\ Last(trades).profit_pct = Some(-1000)
    /\ Last(trades).profit[1] < -2000 * Last(trades).shares

\* ------------------------------------------------------------------ C20
\* C20: in the scan of _calculate_metrics the running peak is never below
\* the current day's portfolio value (it is the largest value seen so far),
\* the first day's value is the first peak, and the reported
\* max_drawdown_pct is >= 0.
C20_MonotonicPeak ==
    /\ pc = "done" =>
          \A i \in 1..Len(result.daily_data) :
              LET peak == RunningPeak(result.daily_data, i)
              IN  /\ peak >= result.daily_data[i].portfolioValue
                  /\ peak = MaxOf({result.daily_data[j].portfolioValue :
                                     j \in 1..i})
                  /\ (i = 1 => peak = result.daily_data[1].portfolioValue)
    /\ result.max_drawdown_pct >= 0

\* a run whose value rose above the first day's, then fell below the peak
C20_Witness ==
    /\ pc = "done"
    /\ Len(daily_data) = 3
    /\ daily_data[2].portfolioValue > daily_data[1].portfolioValue
    /\ daily_data[3].portfolioValue < daily_data[2].portfolioValue
    /\ result.max_drawdown_pct > 0

\* ------------------------------------------------------------------ C28
\* the sum of f over the entries of ledger tr whose type is kind
RECURSIVE SumOfTrades(_, _, _, _)
SumOfTrades(tr, kind, f(_), n) ==
    IF n = 0 THEN 0
    ELSE SumOfTrades(tr, kind, f, n - 1)
           + (IF tr[n].type = kind THEN f(tr[n]) ELSE 0)

ProfitOf(t) == t.profit[1]

\* the commission paid on a BUY: floor(price * shares * commission_rate)
BuyFeeOf(t) == FloorOf(t.price * t.shares * params.commission_rate, RateDen)

\* C28: whenever the engine is FLAT, cash = initial_capital + the realized
\* profits of all SELL trades so far - the commissions paid on all BUY
\* trades so far: realized profit is net of sell commission and tax and
\* does not include the buy-side commission.
C28_AccountingIdentity ==
    position = 0 =>
        cash = params.initial_capital
                 + SumOfTrades(trades, "sell", ProfitOf, Len(trades))
                 - SumOfTrades(trades, "buy", BuyFeeOf, Len(trades))

\* FLAT after a round trip that paid a buy commission, a sell commission
\* and tax
C28_Witness ==
    /\ position = 0
    /\ Len(trades) = 2
    /\ params.commission_rate > 0
    /\ params.tax_rate > 0
    /\ BuyFeeOf(trades[1]) > 0
    /\ trades[2].profit[1] # trades[2].shares * (trades[2].price - trades[1].price)
    /\ cash # params.initial_capital

\* ------------------------------------------------------------------ C30
\* C30: on a non-empty series a run whose start_date is later than its
\* end_date never reaches the day loop: it fails in range location, with no
\* date >= start_date or with the end index before the start index, and
\* records no snapshot and no trade.
C30_InvertedRange ==
    (params.start_date > params.end_date /\ price_history # <<>>) =>
        /\ pc \in {"load", "locate", "failed"}
        /\ daily_data = <<>>
        /\ trades = <<>>
        /\ idx = NoIndex
        /\ (pc = "failed" =>
              \/ error = "No data after" /\ start_idx = NoIndex
                   /\ \A d \in AscDates : d < params.start_date
              \/ error = "No data in range" /\ start_idx # NoIndex
                   /\ end_idx < start_idx)

\* an inverted range inside the stored dates: both indexes were found, the
\* end index before the start index
C30_Witness ==
    /\ pc = "failed"
    /\ params.start_date > params.end_date
    /\ start_idx > 0
    /\ end_idx >= 0
    /\ end_idx < start_idx
    /\ params.end_date > all_prices[1].date

\* ------------------------------------------------------------------ C29
\* C29: the ledger alternates BUY, SELL, BUY, ... starting with a BUY;
\* trade dates are strictly ascending, so no two trades share a day; every
\* trade was made on a recorded day; each SELL sells the shares of the BUY
\* just before it; the ledger is never longer than the snapshot sequence.
C29_LedgerShape ==
    /\ \A k \in 1..Len(trades) :
          /\ trades[k].type = (IF k % 2 = 1 THEN "buy" ELSE "sell")
          /\ HasSnapshot(trades[k])
          /\ (k > 1 => trades[k - 1].date < trades[k].date)
          /\ (k % 2 = 0 => trades[k].shares = trades[k - 1].shares)
          /\ trades[k].shares > 0
    /\ Len(trades) <= Len(daily_data)
    /\ (position > 0 <=> (trades # <<>> /\ Last(trades).type = "buy"))

\* a sell threshold above the buy threshold and a score between the two on
\* every day: a trade on each of six days, three round trips
C29_Witness ==
    /\ params.sell_threshold > params.buy_threshold
    /\ Len(trades) = 6
    /\ Len(daily_data) = 6
    /\ \A i \in 1..6 : daily_data[i].score = NeutralScore

\* ------------------------------------------------------------------ C25
\* C25: for every indicators input, calculate_total returns a total_score
\* equal to the sum of the five component scores it reports (MA arrangement,
\* MA divergence, RSI, MACD, volume), the total lies within [0, 30] and the
\* reported max_score is 30.0; each component stays within its own maximum.
Analyzed == scorer.kind = "analyzer" /\ scorer.result # None

C25_ScoreRange ==
    Analyzed =>
        LET r == scorer.result[1]
            d == r.details
        IN  /\ r.total_score = d.ma_arrangement + d.ma_divergence + d.rsi
                               + d.macd + d.volume
            /\ r.total_score \in 0..300
            /\ r.max_score = 300
            /\ d.ma_arrangement \in 0..MAX_MA_ARRANGEMENT
            /\ d.ma_divergence \in 0..MAX_MA_DIVERGENCE
            /\ d.rsi \in 0..MAX_RSI
            /\ d.macd \in 0..MAX_MACD
            /\ d.volume \in 0..MAX_VOLUME

\* a fully bullish input reaches the maximum of 30.0 only through the volume
\* component of 8.0
C25_Witness ==
    /\ Analyzed
    /\ scorer.indicators.has_data
    /\ scorer.result[1].details.ma_arrangement = 60
    /\ scorer.result[1].details.volume = 80
    /\ scorer.result[1].details.rsi = 50
    /\ scorer.result[1].details.macd = 50
    /\ scorer.result[1].details.ma_divergence = 60
    /\ scorer.result[1].total_score = 300

\* ------------------------------------------------------------------ C27
\* C27: every simulated day invokes _calculate_score exactly once, on that
\* day's window; the call returns exactly 15.0, the analyzer's total for
\* indicators without data, when the window has fewer than 20 price points,
\* when the indicators report no data and when the indicator calculation or
\* the analyzer raises; the returned score is the one the day's snapshot
\* records, and the run goes on after the call whatever happened inside it.
C27_NeutralFallback ==
    [][DayTaken =>
         /\ scorer'.kind = "engine"
         /\ scorer'.calls = CallsSoFar + 1
         /\ scorer'.calls = Len(daily_data')
         /\ scorer'.prices = price_slice'
         /\ Last(scorer'.prices) = all_prices[idx + 1]
         /\ (scorer'.path \in {"short", "no_data", "exception"}
               => scorer'.returned = NeutralScore)
         /\ (Len(scorer'.prices) < MinScoreWindow => scorer'.path = "short")
         /\ NeutralScore = calculate_total(NoDataIndicators).total_score
         /\ Last(daily_data').score = scorer'.returned
         /\ pc' = "loop"
         /\ error' = "none"]_vars

\* a finished run in which the scorer raised on a full window with a share
\* held: the neutral score kept the position open
C27_Witness ==
    /\ pc = "done"
    /\ scorer.kind = "engine"
    /\ scorer.path = "exception"
    /\ Len(scorer.prices) >= MinScoreWindow
    /\ scorer.returned = NeutralScore
    /\ position > 0
    /\ Len(daily_data) > MaxTail

\* ------------------------------------------------------------------ C24
\* a run on its own: the engine's fields after the first n days of the range
RECURSIVE SoloAfter(_, _, _)
SoloAfter(prices, s, n) ==
    IF n = 0
    THEN [position |-> 0, cash |-> params.initial_capital, buy_price |-> 0,
          trades |-> <<>>, daily_data |-> <<>>]
    ELSE LET before == SoloAfter(prices, s, n - 1)
             i == s + n - 1
             window == PriceSlice(prices, i)
             current == prices[i + 1]
             score == _calculate_score(window, ScoreOf(window))
             st == _apply_strategy([position |-> before.position,
                                    cash |-> before.cash,
                                    buy_price |-> before.buy_price,
                                    trades |-> before.trades],
                                   current.date, current.close_price, score)
         IN  [position |-> st.position, cash |-> st.cash,
              buy_price |-> st.buy_price, trades |-> st.trades,
              daily_data |-> Append(before.daily_data,
                                    Snapshot(current.date, current.close_price,
                                             score, st.cash, st.position))]

SoloResult(prices, s, e) ==
    LET final == SoloAfter(prices, s, e - s + 1)
    IN  BuildResult(final.daily_data, final.trades,
                    prices[s + 1].close_price, prices[e + 1].close_price)

\* C24: two engines stepped a day at a time in any order each keep their own
\* position, cash, ledger and snapshot sequence: at every point of every
\* interleaving the fields of each engine are those of the same run made
\* alone up to the same day, and each finished run returns the result of
\* the run made alone.
C24_Isolation ==
    /\ pc \in {"loop", "done"} =>
          LET solo == SoloAfter(all_prices, start_idx, Len(daily_data))
          IN  /\ position = solo.position
              /\ cash = solo.cash
              /\ buy_price = solo.buy_price
              /\ trades = solo.trades
              /\ daily_data = solo.daily_data
              /\ idx = start_idx + Len(daily_data)
    /\ twin.pc \in {"loop", "done"} =>
          LET solo == SoloAfter(twin.all_prices, twin.start_idx,
                                Len(twin.daily_data))
          IN  /\ twin.position = solo.position
              /\ twin.cash = solo.cash
              /\ twin.buy_price = solo.buy_price
              /\ twin.trades = solo.trades
              /\ twin.daily_data = solo.daily_data
              /\ twin.idx = twin.start_idx + Len(twin.daily_data)
    /\ pc = "done" => result = SoloResult(all_prices, start_idx, end_idx)
    /\ twin.pc = "done" =>
          twin.result = SoloResult(twin.all_prices, twin.start_idx,
                                   twin.end_idx)

\* the second engine has finished with trades of its own while the first is
\* in the middle of its range with a different ledger and a share held
C24_Witness ==
    /\ twin.pc = "done"
    /\ pc = "loop"
    /\ Len(daily_data) = 2
    /\ idx <= end_idx
    /\ trades # <<>>
    /\ position > 0
    /\ Len(twin.trades) >= 2
    /\ twin.position = 0
    /\ trades[1] # twin.trades[1]
    /\ twin.result.trade_count = Len(twin.trades)

\* ------------------------------------------------------------------ C21
Responded == http.phase = "responded"

RespondedOk == Responded /\ http.response[1].status = 200

\* C21: every BUY trade of the ledger carries neither a realized profit nor
\* a realized profit percent and every SELL trade carries both; the trades
\* of a 200 response of run_backtest are the trades of the result in order,
\* and the serialized trade has the keys profit and profitPct, with the
\* values of the trade, exactly when the trade is a SELL, a SELL with a
\* realized profit of 0 included.
C21_ProfitFields ==
    /\ \A k \in 1..Len(trades) :
          /\ trades[k].type = "buy" =>
                trades[k].profit = None /\ trades[k].profit_pct = None
          /\ trades[k].type = "sell" =>
                trades[k].profit # None /\ trades[k].profit_pct # None
    /\ (RespondedOk /\ http.endpoint = "run") =>
          LET sent == http.response[1].body[1].trades
          IN  /\ Len(sent) = Len(result.trades)
              /\ result.trades = trades
              /\ \A k \in 1..Len(sent) :
                    /\ sent[k].type = trades[k].type
                    /\ "profit" \in DOMAIN sent[k] <=> trades[k].type = "sell"
                    /\ "profitPct" \in DOMAIN sent[k] <=>
                          trades[k].type = "sell"
                    /\ trades[k].type = "sell" =>
                          /\ sent[k].profit = trades[k].profit[1]
                          /\ sent[k].profitPct = trades[k].profit_pct[1]

\* a 200 response with a BUY and a SELL that realized exactly 0
C21_Witness ==
    /\ RespondedOk
    /\ http.endpoint = "run"
    /\ Len(trades) >= 2
    /\ trades[1].type = "buy"
    /\ trades[2].type = "sell"
    /\ trades[2].profit = Some(0)
    /\ http.response[1].body[1].trades[2].profit = 0
    /\ "profit" \notin DOMAIN http.response[1].body[1].trades[1]

\* ------------------------------------------------------------------ C22
RunRequest == http.phase # "none" /\ http.endpoint = "run"

BadThresholds ==
    http.request[1].sell_threshold >= http.request[1].buy_threshold

\* C22 as stated: every request with sell_threshold >= buy_threshold is
\* answered 400 and no engine is constructed for it (the lookup working).
C22_Rejected400 ==
    (RunRequest /\ BadThresholds /\ http.lookup # "error") =>
        /\ pc = "none"
        /\ Responded => http.response[1].status = 400

\* C22: for a request with sell_threshold >= buy_threshold no engine is ever
\* constructed; run_backtest answers it 400 with the threshold reason when
\* the stock is known and has stored prices, while the earlier checks answer
\* an unknown stock 404 and a stock without prices 400 (a failing lookup
\* 500); an engine built for a request therefore has sell_threshold <
\* buy_threshold, the thresholds of the request.  The engine makes no such
\* check: built directly with sell_threshold >= buy_threshold it fails only
\* for the reasons any run fails.
C22_ValidatedOnce ==
    /\ (RunRequest /\ BadThresholds) =>
          /\ pc = "none"
          /\ daily_data = <<>> /\ trades = <<>>
          /\ Responded =>
                LET r == http.response[1]
                IN  /\ r.body = None
                    /\ r.status = (IF http.lookup = "error" THEN 500
                                   ELSE IF http.lookup = "missing" THEN 404
                                   ELSE 400)
                    /\ (http.lookup = "found" /\ price_history # <<>>) =>
                          r.detail = "sell_threshold must be less than buy_threshold"
    /\ (RunRequest /\ pc # "none") =>
          /\ params.sell_threshold < params.buy_threshold
          /\ params.sell_threshold = http.request[1].sell_threshold
          /\ params.buy_threshold = http.request[1].buy_threshold
    /\ (http = NoRequest /\ pc = "failed") =>
          error \in {"No price data", "No data after", "No data in range"}

\* equal thresholds, known stock with prices: answered 400 for the thresholds
C22_Witness ==
    /\ RunRequest
    /\ Responded
    /\ http.lookup = "found"
    /\ price_history # <<>>
    /\ http.request[1].sell_threshold = http.request[1].buy_threshold
    /\ http.response[1].status = 400
    /\ http.response[1].detail = "sell_threshold must be less than buy_threshold"
    /\ pc = "none"

\* ------------------------------------------------------------------ C23
\* the fatal conditions of a backtest request
UnknownStock == http.lookup = "missing"

NoStoredPrices == http.lookup = "found" /\ price_history = <<>>

NoDataInRange == pc = "failed"

FatalCondition ==
    http.lookup # "error"
    /\ (UnknownStock \/ NoStoredPrices \/ BadThresholds \/ NoDataInRange)

\* C23: a run_backtest request that meets a fatal condition (unknown stock,
\* no stored prices, no data in the requested range, invalid thresholds) is
\* answered with a 4xx status and a reason, without a result body; it is
\* answered once, nothing runs after the answer and no engine is built a
\* second time.
C23_FatalIs4xx ==
    [][/\ http.phase = "responded" => FALSE
       /\ (RunRequest /\ pc # "none") => pc' # "none" /\ params' = params
       /\ (RunRequest /\ http'.phase = "responded" /\ FatalCondition') =>
             LET r == http'.response[1]
             IN  /\ r.status \in {400, 404}
                 /\ r.detail # ""
                 /\ r.body = None
                 /\ UnknownStock => r.status = 404
                 /\ pc' # "done"
                 /\ result' = EmptyResult]_vars

\* the engine raised for an empty range and the request was answered 400
\* with the engine's message
C23_Witness ==
    /\ RunRequest
    /\ Responded
    /\ pc = "failed"
    /\ error = "No data in range"
    /\ http.response[1].status = 400
    /\ http.response[1].detail = error
    /\ http.response[1].body = None

\* ------------------------------------------------------------------ C26
DateRangeRequest == http.phase # "none" /\ http.endpoint = "date-range"

\* C26: GET /{code}/date-range answers 200 when the stock and its price
\* range exist and 404 when the stock or its data is missing.
C26_DateRangeStatus ==
    (DateRangeRequest /\ Responded /\ http.lookup # "error") =>
        http.response[1].status =
            (IF http.lookup = "found" /\ price_history # <<>> THEN 200
             ELSE 404)

====
